---- MODULE Spec2Model ----
(***************************************************************************)
(* Order workflow of listo365-backend: POST /orders (customer upsert,      *)
(* address, order header and items in one interactive transaction, then    *)
(* best-effort e-mail) and PATCH /orders/:id/status (stock decrement on    *)
(* entering COMPLETED, increment on leaving it), run by concurrent HTTP    *)
(* requests against one database.                                          *)
(*                                                                         *)
(* db is the COMMITTED database: what any other request can read.  A       *)
(* request inside prisma.$transaction keeps its uncommitted statements in  *)
(* its own record (cl[c]); they reach db when the callback returns         *)
(* (COMMIT) and are dropped when it throws (ROLLBACK).  The COMMIT that    *)
(* follows the callback's last statement is taken in one step with that    *)
(* statement, and a request's arrival in one step with its first read:     *)
(* no statement of any request can be ordered between them observably.     *)
(* Row updates hold their row lock until the transaction ends.             *)
(***************************************************************************)
EXTENDS Integers, Sequences, FiniteSets, TLC

\* ------------------------------------------------------------------ bounds
MaxOrders == 2      \* orders POST /orders may create when requests run one at a time
MaxRaceOrders == 1  \* the same, in the runs where the status requests of two clients race
MaxItems == 1       \* line items per submitted order
MaxQty == 2         \* largest submitted quantity
InitStock == 2      \* stock every product and variant row starts with
MaxDrift == 2       \* PATCH requests arrive while |stock - InitStock| <= MaxDrift
MaxAdminOrders == 1 \* orders created in the runs with catalogue and note administration
MaxPromos == 2      \* promotion rows of a product
MaxNameLen == 4     \* characters of a category name

\* ------------------------------------------------------------- vocabulary
Clients == {"c1", "c2"}

STATUS_VALUES == <<"RECEIVED", "IN_PROGRESS", "COMPLETED", "REFUSED", "CANCELLED">>

StatusSet == {STATUS_VALUES[k] : k \in 1..Len(STATUS_VALUES)}

Null == "null"

Undefined == 0 - 1

\* Product and ProductVariant rows (the catalogue).
Products == {"p1", "p2"}

Variants == {"v1"}

\* Money is counted in thousandths of a dollar: 12990 is 12.99.
\* Prices of the seeded rows.
ProductPrice == [p \in Products |-> IF p = "p1" THEN 12990 ELSE 24500]

VariantPrice == [v \in Variants |-> 5490]

\* The columns of a product row that no modelled route writes.
ProductData ==
  [description |-> "Versatile surface cleaner for daily use.",
   packageSize |-> "1 gal / 32 oz",
   pdfUrl      |-> "https://example.com/files/all-purpose-cleaner.pdf",
   images      |-> <<"/img/1.jpg", "/img/2.jpg">>]

\* visiblePrice, visiblePackageSize, visiblePdf, visibleImages, visibleDescription.
AllVisible == [price |-> TRUE, packageSize |-> TRUE, pdf |-> TRUE, images |-> TRUE, description |-> TRUE]

\* The product each variant row belongs to.
VariantProduct == [v \in Variants |-> "p1"]

\* Ids a request may carry that resolve to no row.
GhostProduct == "p0"

GhostVariant == "v0"

Emails == {"jane@x.com"}

\* The same address as a client may type it.
MixedCaseEmails == {"Jane@X.com"}

Names == {"Jane", "Janet"}

NoRow == "none"

\* User rows (admin accounts).
Users == {"u1"}

\* What an Authorization header can carry.  form: no usable Bearer token
\* ("none"), a string that is no JWT ("garbage"), or a JWT; sig: the secret it
\* was signed with; expired: its exp lies in the past; sub and role: payload.
NoToken == [form |-> "none", sig |-> Null, expired |-> FALSE, sub |-> Null, role |-> Null]

IssuedToken(u, role) == [form |-> "jwt", sig |-> "server", expired |-> FALSE, sub |-> u, role |-> role]

\* Headers that were not issued by the server.
ForeignTokens ==
  {[NoToken EXCEPT !.form = "garbage"],
   [form |-> "jwt", sig |-> "other", expired |-> FALSE, sub |-> "u1", role |-> "ADMIN"]}

\* The environment of the process.  An unset variable reads "".
DefaultEnv ==
  [JWT_SECRET |-> "server", JWT_SECRET_FALLBACK |-> "", ADMIN_BOOTSTRAP_TOKEN |-> "",
   ADMIN_PASSWORD |-> ""]

Envs ==
  [JWT_SECRET : {"", "server", " server "}, JWT_SECRET_FALLBACK : {"", "fallback"},
   ADMIN_BOOTSTRAP_TOKEN : {"", "bootstrap"}, ADMIN_PASSWORD : {"", "admin123"}]

\* String.prototype.trim on the values above.
trim(v) == IF v = " server " THEN "server" ELSE v

\* createHash("sha256").update(value).digest("hex")
sha256(v) ==
  CASE v = "fallback" -> "sha256-of-fallback"
    [] v = "bootstrap" -> "sha256-of-bootstrap"
    [] v = "admin123" -> "sha256-of-admin123"
    [] OTHER -> "sha256-of-other"

\* resolveJwtSecret: the trimmed JWT_SECRET, else the digest of the first of
\* JWT_SECRET_FALLBACK, ADMIN_BOOTSTRAP_TOKEN, ADMIN_PASSWORD that is set,
\* else null.
resolveJwtSecret(env) ==
  IF trim(env.JWT_SECRET) # "" THEN trim(env.JWT_SECRET)
  ELSE IF trim(env.JWT_SECRET_FALLBACK) # "" THEN sha256(trim(env.JWT_SECRET_FALLBACK))
  ELSE IF trim(env.ADMIN_BOOTSTRAP_TOKEN) # "" THEN sha256(trim(env.ADMIN_BOOTSTRAP_TOKEN))
  ELSE IF trim(env.ADMIN_PASSWORD) # "" THEN sha256(trim(env.ADMIN_PASSWORD))
  ELSE Null

VARIABLES db, cl

vars == <<db, cl>>


\* ---------------------------------------------------------- request inputs
\* A submitted line item: unitPrice and variantId are optional.
ItemInputs ==
  [productId : Products \cup {GhostProduct},
   variantId : Variants \cup {GhostVariant, Null},
   quantity  : 0..MaxQty,
   unitPrice : {Undefined, 10004}]

SeqsUpTo(S, n) == UNION {[1..m -> S] : m \in 0..n}

Bodies ==
  [name : Names, email : Emails, address : BOOLEAN,
   items : SeqsUpTo(ItemInputs, MaxItems)]

\* Quote requests, which carry no price.  The runs about stock submit these.
QuoteBodies ==
  {b \in Bodies : /\ b.name = "Jane"
                  /\ \A i \in 1..Len(b.items) : b.items[i].unitPrice = Undefined}

\* The submissions of the runs where status requests race.
RaceBodies == {b \in QuoteBodies : b.address}

\* Submissions for p1, with or without its variant.
SharedBodies ==
  {b \in RaceBodies :
     /\ Len(b.items) = 1 /\ b.items[1].quantity > 0
     /\ b.items[1].productId = "p1" /\ b.items[1].variantId \in {Null, "v1"}}

\* The order each admin works on.
OrderOf == [c \in Clients |-> IF c = "c1" THEN 1 ELSE 2]

\* Submissions of one customer under either spelling of the email and either
\* name, for one unit of p1.
CaseBodies ==
  [name : Names, email : Emails \cup MixedCaseEmails, address : BOOLEAN,
   items : {<<[productId |-> "p1", variantId |-> Null, quantity |-> 1, unitPrice |-> Undefined]>>}]

\* Submissions of one customer under either name for one unit of p1, with or
\* without its variant and with or without a price.
SnapshotBodies ==
  {b \in Bodies :
     /\ Len(b.items) = 1
     /\ b.items[1].productId = "p1" /\ b.items[1].quantity = 1
     /\ b.items[1].variantId \in {Null, "v1"}}

\* Submissions of the runs with catalogue and note administration.
PricedBodies == {b \in Bodies : b.name = "Jane" /\ b.address}

\* Submissions whose items name a product and, if any, one of its own variants.
CatalogBodies ==
  {b \in RaceBodies :
     \A i \in 1..Len(b.items) :
       b.items[i].variantId \in Variants => VariantProduct[b.items[i].variantId] = b.items[i].productId}

\* The product ids that catalogue requests of admins name.
AdminTargets == {"p1", GhostProduct}

\* Bodies of PUT /products/:id (Upsert.partial()): every field is optional.
\* They carry no categoryId, images or variants.
NewPrice == 19990

RestockTo == 1

PutBodies ==
  [price  : {Undefined, NewPrice},
   stock  : {Undefined, RestockTo},
   active : {Null, "true", "false"}]

\* The PUT bodies that carry no price.
StockBodies == {b \in PutBodies : b.price = Undefined}

\* Bodies of POST /products (Upsert): price and stock are required; they also
\* carry images, a categoryId and all five visibility flags set to true.
CreateBodies == {b \in PutBodies : b.price # Undefined /\ b.stock # Undefined}

\* Bodies of PATCH /products/:id/sort-order.
SortOrders == {0, 10}

\* The PUT bodies that carry a price only.
PriceBodies == {b \in PutBodies : b.price # Undefined /\ b.stock = Undefined /\ b.active = Null}

\* Promotion rows.  The clock reads Now: a window is running (0 to 2), not yet
\* started (2 to 3) or over (0 to 0).  percentOff and priceOff are 0 when null.
Now == 1

Promotions ==
  [active : BOOLEAN, window : {<<0, 2>>, <<2, 3>>, <<0, 0>>},
   percentOff : {0, 10}, priceOff : {0, 5000, 50000}]

\* Bodies of PATCH /products/:id/visibility that set at most one flag.
VisibilityBodies ==
  {b \in [price : {Null, "true", "false"}, packageSize : {Null, "true", "false"},
          pdf : {Null, "true", "false"}, images : {Null, "true", "false"},
          description : {Null, "true", "false"}] :
     Cardinality({f \in DOMAIN b : b[f] # Null}) <= 1}

\* The visibility bodies that name the price flag only.
PriceFlagBodies ==
  {b \in VisibilityBodies : b.packageSize = Null /\ b.pdf = Null /\ b.images = Null /\ b.description = Null}

\* The characters of names: a lower-case and an upper-case letter, a digit, a
\* hyphen, a space and a letter outside ASCII.
Chars == {"a", "B", "7", "-", " ", "é"}

\* Bodies of POST /categories: a name of at least 2 characters.
CategoryNames == UNION {[1..n -> Chars] : n \in 2..MaxNameLen}

\* Bodies of PATCH /orders/:id/note.
NoteBodies == [note : {Null, "call first"}, adminNote : {Null, "vip"}]

NoBody == [name |-> Null, email |-> Null, address |-> FALSE, items |-> <<>>]

\* product: the JSON object of a product response, <<>> when there is none;
\* list: the JSON array of a list response; all: the request carried ?all=1.
NoResp ==
  [code |-> 0, error |-> Null, effect |-> "none", orderId |-> 0, step |-> 0, mail |-> "none",
   product |-> <<>>, list |-> <<>>, all |-> FALSE, category |-> <<>>, user |-> <<>>]

Idle ==
  [pc |-> "idle", body |-> NoBody, items |-> <<>>, id |-> 0, next |-> Null,
   prev |-> Null, k |-> 0, pid |-> Null, token |-> NoToken, name |-> <<>>, noteBody |-> <<>>,
   resp |-> NoResp]

Finished(r) == [Idle EXCEPT !.resp = r]

\* ------------------------------------------------------------ pure helpers
\* zod Body of POST /orders: at least one item, every quantity positive.
ValidBody(b) ==
  /\ Len(b.items) >= 1
  /\ \A i \in 1..Len(b.items) : b.items[i].quantity > 0

\* variantDelegate.findUnique({ where: { id: it.variantId } }) returns a row.
VariantFound(it) == it.variantId = Null \/ it.variantId \in db.variants

\* hydratedItems: the unit price stored for one submitted item (the schema has
\* the productVariant model, so the variant delegate resolves).
HydrateItem(it) ==
  IF it.variantId = Null
  THEN [it EXCEPT !.unitPrice = IF it.unitPrice # Undefined THEN it.unitPrice ELSE 0]
  ELSE [it EXCEPT !.unitPrice = IF it.unitPrice # Undefined THEN it.unitPrice
                                ELSE VariantPrice[it.variantId]]

Hydrate(items) == [i \in 1..Len(items) |-> HydrateItem(items[i])]

\* The product rows that exist.
ProductRows == {p \in Products : db.pRow[p] # "gone"}

\* calcTotals: the sum of quantity * unitPrice, then toFixed(2), which gives
\* the hundredth nearest to the sum.
calcTotals(items) ==
  LET sum[n \in 0..Len(items)] ==
        IF n = 0 THEN 0 ELSE sum[n - 1] + items[n].quantity * items[n].unitPrice
      toFixed2(x) == ((x + 5) \div 10) * 10
  IN [subtotal |-> toFixed2(sum[Len(items)]), total |-> toFixed2(sum[Len(items)])]

\* The foreign keys of an OrderItem row.
ForeignKeysHold(items) ==
  \A i \in 1..Len(items) :
    /\ items[i].productId \in ProductRows
    /\ items[i].variantId = Null \/ items[i].variantId \in db.variants

StockEffect_NoPrevCheck(prev, next) ==
  IF next = "COMPLETED" THEN "dec"
  ELSE IF prev = "COMPLETED" THEN "inc" ELSE "none"

StockEffect_NoRestore(prev, next) ==
  IF prev # "COMPLETED" /\ next = "COMPLETED" THEN "dec" ELSE "none"

\* The prev/next comparison of PATCH /orders/:id/status.
StockEffect(prev, next) ==
  IF prev # "COMPLETED" /\ next = "COMPLETED" THEN "dec"
  ELSE IF prev = "COMPLETED" /\ next # "COMPLETED" THEN "inc"
  ELSE "none"

RECURSIVE StockOps_ProductOnly(_)
StockOps_ProductOnly(items) ==
  IF items = <<>> THEN <<>>
  ELSE <<[table |-> "product", row |-> Head(items).productId,
          quantity |-> Head(items).quantity]>>
       \o StockOps_ProductOnly(Tail(items))

\* applyStockDelta's loop: the UPDATE statements it issues, in order.
RECURSIVE StockOps(_)
StockOps(items) ==
  IF items = <<>> THEN <<>>
  ELSE LET it == Head(items) IN
       <<[table |-> "product", row |-> it.productId, quantity |-> it.quantity]>>
       \o (IF it.variantId # Null
           THEN <<[table |-> "variant", row |-> it.variantId, quantity |-> it.quantity]>>
           ELSE <<>>)
       \o StockOps(Tail(items))

Delta(direction, quantity) == IF direction = "dec" THEN 0 - quantity ELSE quantity

ApplyOp_Overwrite(d, op, direction) ==
  IF op.table = "product"
  THEN [d EXCEPT !.pStock[op.row] = InitStock + Delta(direction, op.quantity)]
  ELSE [d EXCEPT !.vStock[op.row] = InitStock + Delta(direction, op.quantity)]

\* { stock: { increment: delta } } on one row.
ApplyOp(d, op, direction) ==
  IF op.table = "product"
  THEN [d EXCEPT !.pStock[op.row] = @ + Delta(direction, op.quantity)]
  ELSE [d EXCEPT !.vStock[op.row] = @ + Delta(direction, op.quantity)]

RECURSIVE ApplyOps(_, _, _)
ApplyOps(d, ops, direction) ==
  IF ops = <<>> THEN d
  ELSE ApplyOps(ApplyOp(d, Head(ops), direction), Tail(ops), direction)

RowExists(op) ==
  IF op.table = "product" THEN op.row \in ProductRows ELSE op.row \in db.variants

\* findUnique({ where: { id } }) returns a row.
OrderExists(d, id) == id \in 1..Len(d.orders)


\* ----------------------------------------------------------- transactions
\* Statements 1..k-1 of a status transaction have run; their row locks are held.
OpsDone(r) == SubSeq(r.items, 1, r.k - 1)

HeldRows(r) ==
  IF r.pc \in {"ss_stock", "ss_update"}
  THEN {<<r.items[j].table, r.items[j].row>> : j \in 1..(r.k - 1)}
  ELSE {}

LockedByOther(c, op) == \E o \in Clients \ {c} : <<op.table, op.row>> \in HeldRows(cl[o])

\* The customer row an uncommitted upsert holds.
HoldsCustomer(r, email) == r.pc \in {"co_address", "co_order"} /\ r.body.email = email

RollbackStatusTx_KeepsWrites(d, opsDone, direction) == ApplyOps(d, opsDone, direction)

\* prisma.$transaction whose callback threw: ROLLBACK of the status transaction.
RollbackStatusTx(d, opsDone, direction) == d

CommitStatusTx_Recheck(d, id, next, ops, direction) ==
  IF direction = "dec" /\ d.orders[id].status = "COMPLETED"
  THEN [d EXCEPT !.orders[id].status = next]
  ELSE [ApplyOps(d, ops, direction) EXCEPT !.orders[id].status = next]

\* The callback returned: its stock updates and the status update become visible.
CommitStatusTx(d, id, next, ops, direction) ==
  [ApplyOps(d, ops, direction) EXCEPT !.orders[id].status = next]

RollbackCreateTx_KeepsRows(d, b) ==
  [d EXCEPT !.customers[b.email] = b.name,
            !.addresses = IF b.address THEN Append(@, b.email) ELSE @]

\* ROLLBACK of the order-creation transaction.
RollbackCreateTx(d, b) == d

\* A DECIMAL(12,2) column keeps the hundredth nearest to the value written.
Decimal12_2(x) == ((x + 5) \div 10) * 10

\* The OrderItem rows as stored: unitPrice is a DECIMAL(12,2) column.
StoredItems(items) ==
  [i \in 1..Len(items) |-> [items[i] EXCEPT !.unitPrice = Decimal12_2(@)]]

CommitCreateTx_LiveCustomer(d, b, items) ==
  [d EXCEPT
     !.customers[b.email] = b.name,
     !.addresses = IF b.address THEN Append(@, b.email) ELSE @,
     !.orders = Append([i \in 1..Len(@) |->
                          IF @[i].customerId = b.email
                          THEN [@[i] EXCEPT !.customerName = b.name] ELSE @[i]],
                       [status     |-> "RECEIVED",
                        customerId |-> b.email,
                        customerName  |-> b.name,
                        customerEmail |-> b.email,
                        addressId  |-> IF b.address THEN Len(d.addresses) + 1 ELSE 0,
                        note       |-> Null,
                        adminNote  |-> Null,
                        subtotal   |-> calcTotals(items).subtotal,
                        total      |-> calcTotals(items).total,
                        items      |-> StoredItems(items)])]

\* COMMIT of the order-creation transaction: customer upsert, optional address,
\* order header (status RECEIVED) and its items.
CommitCreateTx(d, b, items) ==
  [d EXCEPT
     !.customers[b.email] = b.name,
     !.addresses = IF b.address THEN Append(@, b.email) ELSE @,
     !.orders = Append(@, [status     |-> "RECEIVED",
                           customerId |-> b.email,
                           customerName  |-> b.name,
                           customerEmail |-> b.email,
                           addressId  |-> IF b.address THEN Len(d.addresses) + 1 ELSE 0,
                           note       |-> Null,
                           adminNote  |-> Null,
                           subtotal   |-> calcTotals(items).subtotal,
                           total      |-> calcTotals(items).total,
                           items      |-> StoredItems(items)])]

DriftOk ==
  /\ \A p \in Products :
       db.pStock[p] - InitStock <= MaxDrift /\ InitStock - db.pStock[p] <= MaxDrift
  /\ \A v \in Variants :
       db.vStock[v] - InitStock <= MaxDrift /\ InitStock - db.vStock[v] <= MaxDrift

CreatesInFlight == Cardinality({c \in Clients : cl[c].pc \in {"co_upsert", "co_address", "co_order"}})

\* ------------------------------------------- PATCH /orders/:id/status
\* The request arrives and zod checks the status against STATUS_VALUES.
PatchStatus(c) ==
  /\ cl[c].pc = "idle"
  /\ DriftOk
  /\ UNCHANGED db
  /\ \E id \in 0..MaxOrders, next \in StatusSet \cup {"SHIPPED"} :
       IF next \notin StatusSet
       THEN cl' = [cl EXCEPT ![c] = Finished([NoResp EXCEPT !.code = 500, !.error = "invalid_enum_value"])]
       ELSE cl' = [cl EXCEPT ![c] = [Idle EXCEPT !.pc = "ss_read", !.id = id, !.next = next]]

ReadOrder_ForwardOnly(c) ==
  /\ cl[c].pc = "ss_read"
  /\ UNCHANGED db
  /\ LET r == cl[c] IN
     IF ~OrderExists(db, r.id)
     THEN cl' = [cl EXCEPT ![c] = Finished([NoResp EXCEPT !.code = 500, !.error = "not_found"])]
     ELSE LET prev == db.orders[r.id].status
              dir  == StockEffect(prev, r.next)
              ops  == IF dir = "none" THEN <<>> ELSE StockOps(db.orders[r.id].items)
          IN IF prev = "COMPLETED" /\ r.next # "COMPLETED"
             THEN cl' = [cl EXCEPT ![c] = Finished([NoResp EXCEPT !.code = 500, !.error = "invalid_transition"])]
             ELSE cl' = [cl EXCEPT ![c].pc = IF ops = <<>> THEN "ss_update" ELSE "ss_stock",
                                   ![c].prev = prev, ![c].items = ops, ![c].k = 1]

ReadOrder_NoCheck(c) ==
  /\ cl[c].pc = "ss_read"
  /\ UNCHANGED db
  /\ LET r == cl[c] IN
     IF ~OrderExists(db, r.id)
     THEN cl' = [cl EXCEPT ![c] = Finished([NoResp EXCEPT !.code = 200])]
     ELSE LET prev == db.orders[r.id].status
              dir  == StockEffect(prev, r.next)
              ops  == IF dir = "none" THEN <<>> ELSE StockOps(db.orders[r.id].items)
          IN cl' = [cl EXCEPT ![c].pc = IF ops = <<>> THEN "ss_update" ELSE "ss_stock",
                              ![c].prev = prev, ![c].items = ops, ![c].k = 1]

\* The transaction begins and reads the order with its items: "not_found" is
\* thrown when there is none; otherwise prev/next decide the stock direction.
ReadOrder(c) ==
  /\ cl[c].pc = "ss_read"
  /\ LET r == cl[c] IN
     IF ~OrderExists(db, r.id)
     THEN /\ cl' = [cl EXCEPT ![c] = Finished([NoResp EXCEPT !.code = 500, !.error = "not_found"])]
          /\ db' = RollbackStatusTx(db, <<>>, "none")
     ELSE LET prev == db.orders[r.id].status
              dir  == StockEffect(prev, r.next)
              ops  == IF dir = "none" THEN <<>> ELSE StockOps(db.orders[r.id].items)
          IN /\ cl' = [cl EXCEPT ![c].pc = IF ops = <<>> THEN "ss_update" ELSE "ss_stock",
                                 ![c].prev = prev, ![c].items = ops, ![c].k = 1]
             /\ UNCHANGED db

\* One UPDATE of applyStockDelta.  It waits for the row lock; it throws when the
\* row is gone or the database gives the transaction up (deadlock victim, time
\* limit), and the transaction rolls back.
ApplyStockDeltaStep(c) ==
  /\ cl[c].pc = "ss_stock"
  /\ LET r   == cl[c]
         op  == r.items[r.k]
         dir == StockEffect(r.prev, r.next)
     IN \E ok \in BOOLEAN :
          IF ok /\ RowExists(op)
          THEN /\ ~LockedByOther(c, op)
               /\ cl' = [cl EXCEPT ![c].k = r.k + 1,
                                   ![c].pc = IF r.k = Len(r.items) THEN "ss_update" ELSE "ss_stock"]
               /\ UNCHANGED db
          ELSE /\ db' = RollbackStatusTx(db, OpsDone(r), dir)
               /\ cl' = [cl EXCEPT ![c] = Finished([NoResp EXCEPT !.code = 500,
                                                                   !.error = "update_failed",
                                                                   !.step = r.k])]

\* tx.orderInquiry.update({ status: next }), COMMIT, res.json({ ok, status }).
UpdateStatus(c) ==
  /\ cl[c].pc = "ss_update"
  /\ LET r   == cl[c]
         dir == StockEffect(r.prev, r.next)
     IN /\ db' = CommitStatusTx(db, r.id, r.next, r.items, dir)
        /\ cl' = [cl EXCEPT ![c] = Finished([NoResp EXCEPT !.code = 200, !.effect = dir])]

\* ------------------------------------------------------- POST /orders
PostOrder_UpsertFirst(c, B, cap) ==
  /\ cl[c].pc = "idle"
  /\ Len(db.orders) + CreatesInFlight < cap
  /\ \E b \in B :
       IF ~ValidBody(b)
       THEN /\ cl' = [cl EXCEPT ![c] = Finished([NoResp EXCEPT !.code = 400, !.error = "invalid_body"])]
            /\ UNCHANGED db
       ELSE IF \E i \in 1..Len(b.items) : ~VariantFound(b.items[i])
       THEN /\ cl' = [cl EXCEPT ![c] = Finished([NoResp EXCEPT !.code = 400, !.error = "variant_not_found"])]
            /\ db' = [db EXCEPT !.customers[b.email] = b.name]
       ELSE /\ cl' = [cl EXCEPT ![c] = [Idle EXCEPT !.pc = "co_upsert", !.body = b,
                                                     !.items = Hydrate(b.items)]]
            /\ UNCHANGED db

\* The request arrives; zod validates the body; every item is hydrated (a
\* variantId that resolves to no row throws VARIANT_NOT_FOUND).
PostOrder(c, B, cap) ==
  /\ cl[c].pc = "idle"
  /\ Len(db.orders) + CreatesInFlight < cap
  /\ \E b \in B :
       /\ UNCHANGED db
       /\ IF ~ValidBody(b)
          THEN cl' = [cl EXCEPT ![c] = Finished([NoResp EXCEPT !.code = 400, !.error = "invalid_body"])]
          ELSE IF \E i \in 1..Len(b.items) : ~VariantFound(b.items[i])
          THEN cl' = [cl EXCEPT ![c] = Finished([NoResp EXCEPT !.code = 400, !.error = "variant_not_found"])]
          ELSE cl' = [cl EXCEPT ![c] = [Idle EXCEPT !.pc = "co_upsert", !.body = b,
                                                    !.items = Hydrate(b.items)]]

\* tx.customer.upsert: waits while another transaction holds that customer row.
UpsertCustomer(c) ==
  /\ cl[c].pc = "co_upsert"
  /\ \A o \in Clients \ {c} : ~HoldsCustomer(cl[o], cl[c].body.email)
  /\ cl' = [cl EXCEPT ![c].pc = IF cl[c].body.address THEN "co_address" ELSE "co_order"]
  /\ UNCHANGED db

\* tx.address.create
CreateAddress(c) ==
  /\ cl[c].pc = "co_address"
  /\ cl' = [cl EXCEPT ![c].pc = "co_order"]
  /\ UNCHANGED db

\* tx.orderInquiry.create with nested items: a foreign-key violation (P2003)
\* rolls the transaction back and answers 400; otherwise COMMIT.
CreateOrder(c) ==
  /\ cl[c].pc = "co_order"
  /\ LET r == cl[c] IN
     IF ForeignKeysHold(r.items)
     THEN /\ db' = CommitCreateTx(db, r.body, r.items)
          /\ cl' = [cl EXCEPT ![c] = [Idle EXCEPT !.pc = "co_mail", !.id = Len(db.orders) + 1]]
     ELSE /\ db' = RollbackCreateTx(db, r.body)
          /\ cl' = [cl EXCEPT ![c] = Finished([NoResp EXCEPT !.code = 400, !.error = "invalid_variant"])]

Created(id, mail) == [NoResp EXCEPT !.code = 201, !.orderId = id, !.mail = mail]

SendCompanyMail_NoCatch(c) ==
  /\ cl[c].pc = "co_mail"
  /\ UNCHANGED db
  /\ \E sent \in BOOLEAN :
       IF sent
       THEN cl' = [cl EXCEPT ![c].pc = "co_mail2"]
       ELSE cl' = [cl EXCEPT ![c] = Finished([NoResp EXCEPT !.code = 500, !.error = "internal_error"])]

\* sendNewOrderEmails, operator message: it returns (sent, or no API key set) or
\* throws; the throw propagates to the handler's catch, which logs it, and the
\* handler answers 201.
SendCompanyMail(c) ==
  /\ cl[c].pc = "co_mail"
  /\ UNCHANGED db
  /\ \E sent \in BOOLEAN :
       IF sent
       THEN cl' = [cl EXCEPT ![c].pc = "co_mail2"]
       ELSE cl' = [cl EXCEPT ![c] = Finished(Created(cl[c].id, "company_failed"))]

\* Customer confirmation: a failure is caught inside the mailer; then 201.
SendCustomerMail(c) ==
  /\ cl[c].pc = "co_mail2"
  /\ UNCHANGED db
  /\ \E sent \in BOOLEAN :
       cl' = [cl EXCEPT ![c] = Finished(Created(cl[c].id, IF sent THEN "sent" ELSE "customer_failed"))]

\* ------------------------------------------------- PATCH /orders/:id/note
PatchNote_Preserve(c) ==
  /\ cl[c].pc = "idle"
  /\ \E id \in 0..MaxOrders, b \in NoteBodies :
       IF ~OrderExists(db, id)
       THEN /\ cl' = [cl EXCEPT ![c] = [Finished([NoResp EXCEPT !.code = 500, !.error = "update_failed"])
                                          EXCEPT !.noteBody = <<b>>]]
            /\ UNCHANGED db
       ELSE /\ db' = [db EXCEPT !.orders[id].note = IF b.note = Null THEN @ ELSE b.note,
                                !.orders[id].adminNote = IF b.adminNote = Null THEN @ ELSE b.adminNote]
            /\ cl' = [cl EXCEPT ![c] = [Finished([NoResp EXCEPT !.code = 200, !.effect = "noted"])
                                          EXCEPT !.noteBody = <<b>>]]

\* const { note, adminNote } = Body.parse(req.body);
\* prisma.orderInquiry.update({ note: note ?? null, adminNote: adminNote ?? null });
\* a field the body leaves out reads undefined and is written as null; the
\* update throws when the order does not exist.  noteBody keeps the body of
\* the request just served.
PatchNote(c) ==
  /\ cl[c].pc = "idle"
  /\ \E id \in 0..MaxOrders, b \in NoteBodies :
       IF ~OrderExists(db, id)
       THEN /\ cl' = [cl EXCEPT ![c] = [Finished([NoResp EXCEPT !.code = 500, !.error = "update_failed"])
                                          EXCEPT !.noteBody = <<b>>]]
            /\ UNCHANGED db
       ELSE /\ db' = [db EXCEPT !.orders[id].note = b.note, !.orders[id].adminNote = b.adminNote]
            /\ cl' = [cl EXCEPT ![c] = [Finished([NoResp EXCEPT !.code = 200, !.effect = "noted"])
                                          EXCEPT !.noteBody = <<b>>]]

\* ---------------------------------------------------- PUT /products/:id
\* prisma.product.update({ where: { id }, data: patch }): a field the body
\* leaves out is undefined in patch and is not written; the update throws
\* when the product does not exist.
PutProduct(c, PB) ==
  /\ cl[c].pc = "idle"
  /\ \E id \in AdminTargets, b \in PB :
       IF id \notin ProductRows
       THEN /\ cl' = [cl EXCEPT ![c] = Finished([NoResp EXCEPT !.code = 500, !.error = "update_failed"])]
            /\ UNCHANGED db
       ELSE /\ db' = [db EXCEPT
                       !.pPrice[id] = IF b.price # Undefined THEN b.price ELSE @,
                       !.pStock[id] = IF b.stock # Undefined THEN b.stock ELSE @,
                       !.pRow[id]   = IF b.active = "true" THEN "active"
                                      ELSE IF b.active = "false" THEN "archived" ELSE @]
            /\ cl' = [cl EXCEPT ![c] = Finished([NoResp EXCEPT !.code = 200, !.effect = "updated"])]

\* ------------------------------------------------- requireAuth / requireAdmin
\* requireAuth: 401 without a Bearer token; 500 when process.env.JWT_SECRET is
\* not set; 401 when jwt.verify with process.env.JWT_SECRET throws (no JWT,
\* wrong signature, expired) or when the payload names no subject; else the
\* request's user takes the role of the payload, "USER" when it has none.
requireAuth(t) ==
  IF t.form = "none" THEN [code |-> 401, role |-> Null]
  ELSE IF db.env.JWT_SECRET = "" THEN [code |-> 500, role |-> Null]
  ELSE IF t.form # "jwt" \/ t.sig # db.env.JWT_SECRET \/ t.expired THEN [code |-> 401, role |-> Null]
  ELSE IF t.sub = Null THEN [code |-> 401, role |-> Null]
  ELSE [code |-> 0, role |-> IF t.role = Null THEN "USER" ELSE t.role]

requireAdmin_AnyUser(t) == requireAuth(t).code

\* requireAdmin: the code it answers with, 0 when it calls next().
requireAdmin(t) ==
  LET a == requireAuth(t) IN
  IF a.code # 0 THEN a.code ELSE IF a.role = "ADMIN" THEN 0 ELSE 403

\* A route registered behind requireAdmin: the handler H runs when the
\* middleware calls next(), else the middleware answers.
AdminRoute(c, H) ==
  IF requireAdmin(cl[c].token) = 0
  THEN H
  ELSE /\ cl[c].pc = "idle"
       /\ cl' = [cl EXCEPT ![c] = Finished([NoResp EXCEPT
                    !.code = requireAdmin(cl[c].token),
                    !.error = IF requireAdmin(cl[c].token) = 403 THEN "forbidden"
                              ELSE IF requireAdmin(cl[c].token) = 500 THEN "jwt_secret_not_set"
                              ELSE "unauthorized"])]
       /\ UNCHANGED db

\* POST /auth/login of an existing user with the right password: the token
\* carries the user's id and stored role.  The client keeps it for its next
\* request.
Login(c) ==
  /\ cl[c].pc = "idle"
  /\ \E u \in Users :
       /\ db.users[u] # NoRow
       /\ IF resolveJwtSecret(db.env) = Null
          THEN cl' = [cl EXCEPT ![c] = Finished([NoResp EXCEPT !.code = 500, !.error = "jwt_not_configured"])]
          ELSE cl' = [cl EXCEPT ![c] =
                        [Idle EXCEPT !.token = [IssuedToken(u, db.users[u]) EXCEPT
                                                  !.sig = resolveJwtSecret(db.env)],
                                     !.resp = [NoResp EXCEPT !.code = 200, !.effect = "token"]]]
  /\ UNCHANGED db

\* GET /auth/me, behind requireAuth: the row of the request's user.
GetMe(c) ==
  /\ cl[c].pc = "idle"
  /\ UNCHANGED db
  /\ LET t == cl[c].token
         a == requireAuth(t)
     IN IF a.code # 0
        THEN cl' = [cl EXCEPT ![c] = Finished([NoResp EXCEPT !.code = a.code,
                      !.error = IF a.code = 500 THEN "jwt_secret_not_set" ELSE "unauthorized"])]
        ELSE IF t.sub \notin Users \/ db.users[t.sub] = NoRow
        THEN cl' = [cl EXCEPT ![c] = Finished([NoResp EXCEPT !.code = 401, !.error = "user_not_found"])]
        ELSE cl' = [cl EXCEPT ![c] = Finished([NoResp EXCEPT !.code = 200, !.effect = "me",
                      !.user = <<[id |-> t.sub, role |-> db.users[t.sub]]>>])]

\* The client's next request carries a header the server never issued.
ForeignHeader(c) ==
  /\ cl[c].pc = "idle"
  /\ \E t \in ForeignTokens : cl' = [cl EXCEPT ![c].token = t]
  /\ UNCHANGED db

\* Seven days pass: the token the client holds is past its exp.
TokenExpires(c) ==
  /\ cl[c].pc = "idle"
  /\ cl[c].token.form = "jwt" /\ cl[c].token.sig # "other" /\ ~cl[c].token.expired
  /\ cl' = [cl EXCEPT ![c].token.expired = TRUE]
  /\ UNCHANGED db

\* The stored role of a user is taken away, or the user row is deleted.  No
\* route does this; it is done on the database.
RevokeAdmin ==
  /\ \E u \in Users, r \in {"USER", NoRow} :
       /\ db.users[u] = "ADMIN"
       /\ db' = [db EXCEPT !.users[u] = r]
  /\ UNCHANGED cl

\* ------------------------------------------------------ product responses
\* FEATURE_PROMOTIONS=1 in the environment of the process.
FEATURE_PROMOS == db.promosOn

computeSale_AnyWindow(p) ==
  LET actives == SelectSeq(p.promotions,
                   LAMBDA pr : pr.active /\ (pr.percentOff # 0 \/ pr.priceOff # 0))
      base == p.price * 100
      newPrice(pr) ==
        LET pct == IF pr.percentOff # 0 THEN p.price * (100 - pr.percentOff) ELSE base
            off == (p.price - pr.priceOff) * 100
        IN IF pr.priceOff # 0 /\ off < pct THEN off ELSE pct
      toFixed2(x) == IF x <= 0 THEN 0 ELSE ((x + 500) \div 1000) * 1000
      loop[n \in 0..Len(actives)] ==
        IF n = 0 THEN [best |-> 0, bestPrice |-> base]
        ELSE IF newPrice(actives[n]) < loop[n - 1].bestPrice
             THEN [best |-> n, bestPrice |-> toFixed2(newPrice(actives[n]))]
             ELSE loop[n - 1]
      end == loop[Len(actives)]
  IN IF end.best = 0 \/ end.bestPrice >= base THEN <<>>
     ELSE <<[percentOff |-> actives[end.best].percentOff,
             priceOff   |-> actives[end.best].priceOff,
             window     |-> actives[end.best].window,
             salePrice  |-> end.bestPrice \div 100]>>

\* computeSale: <<>> for null.  Prices are compared in hundredths of the money
\* unit, in which base * (1 - percentOff / 100) is a whole number; toFixed(2)
\* and Math.max(0, .) give the sale price.
computeSale(p) ==
  LET actives == SelectSeq(p.promotions,
                   LAMBDA pr : /\ pr.active
                               /\ pr.window[1] <= Now /\ Now <= pr.window[2]
                               /\ (pr.percentOff # 0 \/ pr.priceOff # 0))
      base == p.price * 100
      newPrice(pr) ==
        LET pct == IF pr.percentOff # 0 THEN p.price * (100 - pr.percentOff) ELSE base
            off == (p.price - pr.priceOff) * 100
        IN IF pr.priceOff # 0 /\ off < pct THEN off ELSE pct
      toFixed2(x) == IF x <= 0 THEN 0 ELSE ((x + 500) \div 1000) * 1000
      loop[n \in 0..Len(actives)] ==
        IF n = 0 THEN [best |-> 0, bestPrice |-> base]
        ELSE IF newPrice(actives[n]) < loop[n - 1].bestPrice
             THEN [best |-> n, bestPrice |-> toFixed2(newPrice(actives[n]))]
             ELSE loop[n - 1]
      end == loop[Len(actives)]
  IN IF end.best = 0 \/ end.bestPrice >= base THEN <<>>
     ELSE <<[percentOff |-> actives[end.best].percentOff,
             priceOff   |-> actives[end.best].priceOff,
             window     |-> actives[end.best].window,
             salePrice  |-> end.bestPrice \div 100]>>

\* isAdminFromReq: a Bearer token that verifies, names a subject and carries
\* role ADMIN.
isAdminFromReq(t) ==
  /\ t.form = "jwt" /\ t.sig = db.env.JWT_SECRET /\ ~t.expired
  /\ t.sub # Null /\ t.role = "ADMIN"

\* The row findUnique({ where: { id }, select }) loads, with its variants.
LoadProduct(d, id) ==
  [id |-> id, price |-> d.pPrice[id], active |-> d.pRow[id] = "active",
   stock |-> d.pStock[id], sortOrder |-> d.pSort[id],
   description |-> ProductData.description, packageSize |-> ProductData.packageSize,
   pdfUrl |-> ProductData.pdfUrl, images |-> ProductData.images,
   visiblePrice |-> d.pVisible[id].price, visiblePackageSize |-> d.pVisible[id].packageSize,
   visiblePdf |-> d.pVisible[id].pdf, visibleImages |-> d.pVisible[id].images,
   visibleDescription |-> d.pVisible[id].description,
   promotions |-> IF d.promosOn THEN d.promos[id] ELSE <<>>,
   variants |-> IF \E v \in d.variants : VariantProduct[v] = id
                THEN LET v == CHOOSE w \in d.variants : VariantProduct[w] = id
                     IN <<[id |-> v, price |-> VariantPrice[v], stock |-> d.vStock[v]]>>
                ELSE <<>>]

\* serializeProduct as the JSON that res.json sends: a key whose value is
\* undefined is not in the object.
serializeProduct(p, isAdmin) ==
  LET show(flag) == isAdmin \/ flag
      variant(v) ==
        [k \in {"id", "stock"} \cup (IF show(p.visiblePrice) THEN {"price"} ELSE {}) |->
           CASE k = "id" -> v.id [] k = "stock" -> v.stock [] k = "price" -> v.price]
      keys ==
        {"id", "active", "stock", "sortOrder", "images", "imageUrl", "variants"}
          \cup (IF show(p.visibleDescription) THEN {"description"} ELSE {})
          \cup (IF show(p.visiblePrice) THEN {"price"} ELSE {})
          \cup (IF show(p.visiblePackageSize) THEN {"packageSize"} ELSE {})
          \cup (IF show(p.visiblePdf) THEN {"pdfUrl"} ELSE {})
          \cup (IF isAdmin THEN {"visibility"} ELSE {})
          \cup (IF FEATURE_PROMOS /\ computeSale(p) # <<>> THEN {"sale"} ELSE {})
  IN [k \in keys |->
        CASE k = "id" -> p.id
          [] k = "active" -> p.active
          [] k = "stock" -> p.stock
          [] k = "sortOrder" -> p.sortOrder
          [] k = "description" -> p.description
          [] k = "price" -> p.price
          [] k = "packageSize" -> p.packageSize
          [] k = "pdfUrl" -> p.pdfUrl
          [] k = "images" -> IF show(p.visibleImages) THEN p.images ELSE <<>>
          [] k = "imageUrl" -> IF show(p.visibleImages) THEN p.images[1] ELSE Null
          [] k = "visibility" ->
               [price |-> p.visiblePrice, packageSize |-> p.visiblePackageSize,
                pdf |-> p.visiblePdf, images |-> p.visibleImages,
                description |-> p.visibleDescription]
          [] k = "sale" -> computeSale(p)[1]
          [] k = "variants" -> [i \in 1..Len(p.variants) |-> variant(p.variants[i])]]

GetProduct_NoAllFlag(c) ==
  /\ cl[c].pc = "idle"
  /\ UNCHANGED db
  /\ \E id \in Products \cup {GhostProduct}, wantAll \in BOOLEAN :
       LET isAdmin == isAdminFromReq(cl[c].token) IN
       IF id \notin ProductRows \/ (~isAdmin /\ db.pRow[id] # "active")
       THEN cl' = [cl EXCEPT ![c] = Finished([NoResp EXCEPT !.code = 404, !.error = "not_found",
                                                             !.all = wantAll])]
       ELSE cl' = [cl EXCEPT ![c] = Finished([NoResp EXCEPT
                     !.code = 200, !.all = wantAll,
                     !.effect = IF isAdmin THEN "admin_view" ELSE "public_view",
                     !.product = <<serializeProduct(LoadProduct(db, id), isAdmin)>>])]

\* GET /products/:idOrSlug, with or without ?all=1: 404 when there is no row,
\* and for an archived product unless the caller is an admin asking for all.
GetProduct(c) ==
  /\ cl[c].pc = "idle"
  /\ UNCHANGED db
  /\ \E id \in Products \cup {GhostProduct}, wantAll \in BOOLEAN :
       LET isAdmin == wantAll /\ isAdminFromReq(cl[c].token) IN
       IF id \notin ProductRows \/ (~isAdmin /\ db.pRow[id] # "active")
       THEN cl' = [cl EXCEPT ![c] = Finished([NoResp EXCEPT !.code = 404, !.error = "not_found",
                                                             !.all = wantAll])]
       ELSE cl' = [cl EXCEPT ![c] = Finished([NoResp EXCEPT
                     !.code = 200, !.all = wantAll,
                     !.effect = IF isAdmin THEN "admin_view" ELSE "public_view",
                     !.product = <<serializeProduct(LoadProduct(db, id), isAdmin)>>])]

\* The seed creates p1 before p2.
CreatedAt == [p \in Products |-> IF p = "p1" THEN 1 ELSE 2]

\* findMany({ where, orderBy: [{ sortOrder: "asc" }, { createdAt: "desc" }] })
RECURSIVE FindMany(_, _)
FindMany(d, rows) ==
  IF rows = {} THEN <<>>
  ELSE LET first == CHOOSE p \in rows : \A q \in rows \ {p} :
                      \/ d.pSort[p] < d.pSort[q]
                      \/ d.pSort[p] = d.pSort[q] /\ CreatedAt[p] > CreatedAt[q]
       IN <<first>> \o FindMany(d, rows \ {first})

\* GET /products, with or without ?all=1 (no ?q, default sort): the active
\* products, or every product for an admin asking for all, each serialized.
ListProducts(c) ==
  /\ cl[c].pc = "idle"
  /\ UNCHANGED db
  /\ \E allFlag \in BOOLEAN :
       LET isAdmin == allFlag /\ isAdminFromReq(cl[c].token)
           rows    == {p \in ProductRows : isAdmin \/ db.pRow[p] = "active"}
           list    == FindMany(db, rows)
       IN cl' = [cl EXCEPT ![c] = Finished([NoResp EXCEPT
                   !.code = 200, !.all = allFlag,
                   !.effect = IF isAdmin THEN "admin_list" ELSE "public_list",
                   !.list = [i \in 1..Len(list) |-> serializeProduct(LoadProduct(db, list[i]), isAdmin)]])]

\* The rows GET /promotions finds: active promotions whose window holds the
\* clock, each with the selected columns of its product.  All running
\* windows start together, so the rows come in stored order.
RECURSIVE PromotionRows(_, _)
PromotionRows(d, ids) ==
  IF ids = <<>> THEN <<>>
  ELSE LET id      == Head(ids)
           running == SelectSeq(d.promos[id],
                        LAMBDA pr : pr.active /\ pr.window[1] <= Now /\ Now <= pr.window[2])
       IN [i \in 1..Len(running) |->
             [percentOff |-> running[i].percentOff, priceOff |-> running[i].priceOff,
              window |-> running[i].window, active |-> running[i].active,
              product |-> [id |-> id, price |-> d.pPrice[id],
                           visiblePrice |-> d.pVisible[id].price]]]
          \o PromotionRows(d, Tail(ids))

\* GET /promotions: no authentication; the rows are returned as loaded.
GetPromotions(c) ==
  /\ cl[c].pc = "idle"
  /\ UNCHANGED db
  /\ cl' = [cl EXCEPT ![c] = Finished([NoResp EXCEPT !.code = 200, !.effect = "promotions",
                                                       !.list = PromotionRows(db, <<"p1", "p2">>)])]

\* PATCH /products/:id/visibility: the flags the body names are written.
PatchVisibility(c, VB) ==
  /\ cl[c].pc = "idle"
  /\ \E id \in AdminTargets, b \in VB :
       IF id \notin ProductRows
       THEN /\ cl' = [cl EXCEPT ![c] = Finished([NoResp EXCEPT !.code = 500, !.error = "update_failed"])]
            /\ UNCHANGED db
       ELSE /\ db' = [db EXCEPT !.pVisible[id] =
                       [f \in DOMAIN @ |-> IF b[f] = Null THEN @[f] ELSE b[f] = "true"]]
            /\ cl' = [cl EXCEPT ![c] = Finished([NoResp EXCEPT !.code = 200, !.effect = "visibility"])]

\* ------------------------------------------------------------ categories
\* String.prototype.toLowerCase
toLowerCase(s) == [i \in 1..Len(s) |-> IF s[i] = "B" THEN "b" ELSE s[i]]

\* The class [a-z0-9].
IsSlugChar(ch) == ch \in {"a", "b", "7"}

\* replace(/[^a-z0-9]+/g, "-"): every maximal run of other characters
\* becomes one hyphen.
RECURSIVE ReplaceRuns(_)
ReplaceRuns(s) ==
  IF s = <<>> THEN <<>>
  ELSE IF IsSlugChar(Head(s)) THEN <<Head(s)>> \o ReplaceRuns(Tail(s))
  ELSE IF Len(s) > 1 /\ ~IsSlugChar(s[2]) THEN ReplaceRuns(Tail(s))
  ELSE <<"-">> \o ReplaceRuns(Tail(s))

\* replace(/(^-|-$)/g, ""): a hyphen at the start and a hyphen at the end
\* are removed.
TrimHyphens(s) ==
  LET t == IF s # <<>> /\ Head(s) = "-" THEN Tail(s) ELSE s
  IN IF t # <<>> /\ t[Len(t)] = "-" THEN SubSeq(t, 1, Len(t) - 1) ELSE t

slugify_NoTrim(s) == ReplaceRuns(toLowerCase(s))

slugify(s) == TrimHyphens(ReplaceRuns(toLowerCase(s)))

\* POST /categories: the category is created with slug slugify(name) and
\* returned.  The name is the one the request holds.
PostCategory(c) ==
  /\ cl[c].pc = "idle" /\ cl[c].name # <<>>
  /\ cl' = [cl EXCEPT ![c] = Finished([NoResp EXCEPT !.code = 201, !.effect = "category",
               !.category = <<[name |-> cl[c].name, slug |-> slugify(cl[c].name)]>>])]
  /\ UNCHANGED db

\* ------------------------------------------------- catalogue administration
\* prisma.orderItem.count({ where: { productId: id } })
RECURSIVE ItemCount(_, _)
ItemCount(orders, id) ==
  IF orders = <<>> THEN 0
  ELSE Cardinality({j \in 1..Len(Head(orders).items) : Head(orders).items[j].productId = id})
       + ItemCount(Tail(orders), id)

\* The delete transaction: images and category links, variants, product row.
RemoveProduct(d, id) ==
  [d EXCEPT !.pRow[id] = "gone", !.pLinks[id] = FALSE,
            !.variants = {v \in @ : VariantProduct[v] # id}]

\* POST /products: a product row with a new id, its images and category link.
CreateProduct(c) ==
  /\ cl[c].pc = "idle"
  /\ \E id \in Products, b \in CreateBodies :
       /\ db.pRow[id] = "gone"
       /\ db' = [db EXCEPT !.pRow[id] = IF b.active = "false" THEN "archived" ELSE "active",
                            !.pPrice[id] = b.price, !.pStock[id] = b.stock,
                            !.pSort[id] = 0, !.pVisible[id] = AllVisible, !.pLinks[id] = TRUE]
       /\ cl' = [cl EXCEPT ![c] = Finished([NoResp EXCEPT !.code = 201, !.effect = "created"])]

\* DELETE /products/:id and DELETE /products/:id/hard: the order items that
\* reference the product are counted.
DeleteProduct(c) ==
  /\ cl[c].pc = "idle"
  /\ UNCHANGED db
  /\ \E id \in AdminTargets, mode \in {"soft", "hard"} :
       cl' = [cl EXCEPT ![c] = [Idle EXCEPT !.pc = "pd_act", !.pid = id, !.next = mode,
                                            !.k = ItemCount(db.orders, id)]]

DeleteAct_NoArchive(c) ==
  /\ cl[c].pc = "pd_act"
  /\ LET r == cl[c] IN
     IF r.pid \notin ProductRows
     THEN /\ cl' = [cl EXCEPT ![c] = Finished([NoResp EXCEPT !.code = 500, !.error = "delete_failed"])]
          /\ UNCHANGED db
     ELSE /\ db' = RemoveProduct(db, r.pid)
          /\ cl' = [cl EXCEPT ![c] = Finished([NoResp EXCEPT !.code = 200, !.effect = "deleted"])]

\* An order item references the product: OrderItem_productId_fkey, ON DELETE
\* RESTRICT, makes the delete of the product row fail.
Referenced(d, id) ==
  \E i \in 1..Len(d.orders) : \E j \in 1..Len(d.orders[i].items) : d.orders[i].items[j].productId = id

DeleteAct_NoRestrict(c) ==
  /\ cl[c].pc = "pd_act"
  /\ LET r == cl[c] IN
     IF r.k > 0 /\ r.next = "hard"
     THEN /\ cl' = [cl EXCEPT ![c] = Finished([NoResp EXCEPT !.code = 409, !.error = "in_use"])]
          /\ UNCHANGED db
     ELSE IF r.pid \notin ProductRows
     THEN /\ cl' = [cl EXCEPT ![c] = Finished([NoResp EXCEPT !.code = 500,
                      !.error = IF r.next = "hard" THEN "hard_delete_failed" ELSE "delete_failed"])]
          /\ UNCHANGED db
     ELSE IF r.k > 0
     THEN /\ db' = [db EXCEPT !.pRow[r.pid] = "archived"]
          /\ cl' = [cl EXCEPT ![c] = Finished([NoResp EXCEPT !.code = 200, !.effect = "archived"])]
     ELSE /\ db' = RemoveProduct(db, r.pid)
          /\ cl' = [cl EXCEPT ![c] = Finished([NoResp EXCEPT !.code = 200, !.effect = "deleted"])]

\* With references, DELETE archives the product (active: false) and
\* DELETE .../hard answers 409; without, the rows are deleted in one
\* transaction.  An update or delete of a row that is gone throws, and so
\* does the delete of a row that an order item committed since the count
\* references; the transaction rolls back and the catch answers 500.
DeleteAct(c) ==
  /\ cl[c].pc = "pd_act"
  /\ LET r == cl[c] IN
     IF r.k > 0 /\ r.next = "hard"
     THEN /\ cl' = [cl EXCEPT ![c] = Finished([NoResp EXCEPT !.code = 409, !.error = "in_use"])]
          /\ UNCHANGED db
     ELSE IF r.pid \notin ProductRows
     THEN /\ cl' = [cl EXCEPT ![c] = Finished([NoResp EXCEPT !.code = 500,
                      !.error = IF r.next = "hard" THEN "hard_delete_failed" ELSE "delete_failed"])]
          /\ UNCHANGED db
     ELSE IF r.k > 0
     THEN /\ db' = [db EXCEPT !.pRow[r.pid] = "archived"]
          /\ cl' = [cl EXCEPT ![c] = Finished([NoResp EXCEPT !.code = 200, !.effect = "archived"])]
     ELSE IF Referenced(db, r.pid)
     THEN /\ cl' = [cl EXCEPT ![c] = Finished([NoResp EXCEPT !.code = 500,
                      !.error = IF r.next = "hard" THEN "hard_delete_failed" ELSE "delete_failed"])]
          /\ UNCHANGED db
     ELSE /\ db' = RemoveProduct(db, r.pid)
          /\ cl' = [cl EXCEPT ![c] = Finished([NoResp EXCEPT !.code = 200, !.effect = "deleted"])]

\* PATCH /products/:id/archive and /unarchive.
SetArchived(c) ==
  /\ cl[c].pc = "idle"
  /\ \E id \in AdminTargets, archive \in BOOLEAN :
       IF id \notin ProductRows
       THEN /\ cl' = [cl EXCEPT ![c] = Finished([NoResp EXCEPT !.code = 500,
                        !.error = IF archive THEN "archive_failed" ELSE "unarchive_failed"])]
            /\ UNCHANGED db
       ELSE /\ db' = [db EXCEPT !.pRow[id] = IF archive THEN "archived" ELSE "active"]
            /\ cl' = [cl EXCEPT ![c] = Finished([NoResp EXCEPT !.code = 200,
                        !.effect = IF archive THEN "archive" ELSE "unarchive"])]

\* PATCH /products/:id/sort-order
SetSortOrder(c) ==
  /\ cl[c].pc = "idle"
  /\ \E id \in AdminTargets, sortOrder \in SortOrders :
       IF id \notin ProductRows
       THEN /\ cl' = [cl EXCEPT ![c] = Finished([NoResp EXCEPT !.code = 500, !.error = "update_failed"])]
            /\ UNCHANGED db
       ELSE /\ db' = [db EXCEPT !.pSort[id] = sortOrder]
            /\ cl' = [cl EXCEPT ![c] = Finished([NoResp EXCEPT !.code = 200, !.effect = "sorted"])]

\* ------------------------------------------------------- specifications
\* The seeded database: the catalogue and the admin user, no order, no
\* customer, no promotion; FEATURE_PROMOTIONS is not set.
InitDb ==
  [pRow      |-> [p \in Products |-> "active"],
   pPrice    |-> ProductPrice,
   pStock    |-> [p \in Products |-> InitStock],
   pSort     |-> [p \in Products |-> 0],
   pVisible  |-> [p \in Products |-> AllVisible],
   pLinks    |-> [p \in Products |-> TRUE],
   promos    |-> [p \in Products |-> <<>>],
   promosOn  |-> FALSE,
   variants  |-> Variants,
   vStock    |-> [v \in Variants |-> InitStock],
   orders    |-> <<>>,
   customers |-> [e \in Emails \cup MixedCaseEmails |-> NoRow],
   users     |-> [u \in Users |-> "ADMIN"],
   addresses |-> <<>>,
   env       |-> DefaultEnv]

Init ==
  /\ db = InitDb
  /\ cl = [c \in Clients |-> Idle]

StatusStep(c) ==
  \/ PatchStatus(c)
  \/ ReadOrder(c)
  \/ ApplyStockDeltaStep(c)
  \/ UpdateStatus(c)

SubmitStep(c, B, cap) ==
  \/ PostOrder(c, B, cap)
  \/ UpsertCustomer(c)
  \/ CreateAddress(c)
  \/ CreateOrder(c)
  \/ SendCompanyMail(c)
  \/ SendCustomerMail(c)

\* Requests of two clients interleave at every await.
Next == \E c \in Clients : StatusStep(c) \/ SubmitStep(c, RaceBodies, MaxRaceOrders)

Spec == Init /\ [][Next]_vars

\* One request at a time.
SeqNext == StatusStep("c1") \/ SubmitStep("c1", QuoteBodies, MaxOrders)

SeqSpec == Init /\ [][SeqNext]_vars

\* Order submissions of two clients, any body.
SubmitNext == \E c \in Clients : SubmitStep(c, Bodies, MaxOrders)

SubmitSpec == Init /\ [][SubmitNext]_vars

\* One client's submissions; the event loop runs every continuation that is
\* ready, and each call to the mail provider returns or throws.
LiveNext == SubmitStep("c1", Bodies, MaxOrders)

LiveSpec == Init /\ [][LiveNext]_vars /\ WF_vars(LiveNext)

\* One order with prices, then status, note and product price changes.
TotalsNext ==
  \/ SubmitStep("c1", PricedBodies, MaxAdminOrders)
  \/ StatusStep("c1")
  \/ PatchNote("c1")
  \/ PutProduct("c1", PriceBodies)

TotalsSpec == Init /\ [][TotalsNext]_vars

\* Admin routes behind requireAdmin, called with any header.
AuthNext ==
  \/ SubmitStep("c1", RaceBodies, MaxAdminOrders)
  \/ Login("c1")
  \/ ForeignHeader("c1")
  \/ TokenExpires("c1")
  \/ RevokeAdmin
  \/ AdminRoute("c1", PatchStatus("c1"))
  \/ ReadOrder("c1")
  \/ ApplyStockDeltaStep("c1")
  \/ UpdateStatus("c1")
  \/ AdminRoute("c1", PatchNote("c1"))
  \/ AdminRoute("c1", PutProduct("c1", PriceBodies))

AuthSpec == Init /\ [][AuthNext]_vars

\* Product pages read by the public and by admins while the visibility
\* flags are changed.
ViewNext ==
  \/ Login("c1")
  \/ GetProduct("c1")
  \/ AdminRoute("c1", PatchVisibility("c1", VisibilityBodies))

ViewSpec == Init /\ [][ViewNext]_vars

\* Public and admin reads of products that are archived and hidden.
ListNext ==
  \/ Login("c1")
  \/ ForeignHeader("c1")
  \/ TokenExpires("c1")
  \/ RevokeAdmin
  \/ GetProduct("c1")
  \/ ListProducts("c1")
  \/ AdminRoute("c1", SetArchived("c1"))
  \/ AdminRoute("c1", SetSortOrder("c1"))
  \/ AdminRoute("c1", PatchVisibility("c1", PriceFlagBodies))

ListSpec == Init /\ [][ListNext]_vars

\* Two orders for p1 are stored; two admins change the status of one each,
\* their transactions interleaving.
PairInit ==
  /\ \E b1, b2 \in SharedBodies :
       db = CommitCreateTx(CommitCreateTx(InitDb, b1, Hydrate(b1.items)), b2, Hydrate(b2.items))
  /\ cl = [c \in Clients |-> Idle]

PairNext ==
  \E c \in Clients :
    \/ PatchStatus(c) /\ cl'[c].id = OrderOf[c]
    \/ ReadOrder(c)
    \/ ApplyStockDeltaStep(c)
    \/ UpdateStatus(c)

PairSpec == PairInit /\ [][PairNext]_vars

\* Order submissions and product deletions of two clients interleave.
RaceDeleteNext ==
  \E c \in Clients :
    \/ SubmitStep(c, CatalogBodies, MaxRaceOrders)
    \/ DeleteProduct(c)
    \/ DeleteAct(c)

RaceDeleteSpec == Init /\ [][RaceDeleteNext]_vars

\* Public reads of a catalogue in which p1 has any promotion rows, either
\* price and a shown or hidden price, with FEATURE_PROMOTIONS on or off.
LeakInit ==
  /\ \E promos \in SeqsUpTo(Promotions, MaxPromos), price \in {ProductPrice["p1"], 40000},
        on \in BOOLEAN, shown \in BOOLEAN :
       db = [InitDb EXCEPT !.promosOn = on, !.promos["p1"] = promos, !.pPrice["p1"] = price,
                           !.pVisible["p1"].price = shown]
  /\ cl = [c \in Clients |-> Idle]

LeakNext ==
  \/ GetProduct("c1")
  \/ ListProducts("c1")
  \/ GetPromotions("c1")

LeakSpec == LeakInit /\ [][LeakNext]_vars

\* An order submitted with a note, then note and status changes by one admin.
NoteInit ==
  /\ \E b \in SharedBodies :
       db = [CommitCreateTx(InitDb, b, Hydrate(b.items)) EXCEPT !.orders[1].note = "call first"]
  /\ cl = [c \in Clients |-> Idle]

NoteNext ==
  \/ PatchNote("c1")
  \/ StatusStep("c1")

NoteSpec == NoteInit /\ [][NoteNext]_vars

\* Logins and authenticated requests under every environment.
EnvInit ==
  /\ \E env \in Envs : db = [InitDb EXCEPT !.env = env]
  /\ cl = [c \in Clients |-> Idle]

EnvNext ==
  \/ Login("c1")
  \/ TokenExpires("c1")
  \/ GetMe("c1")
  \/ AdminRoute("c1", PutProduct("c1", PriceBodies))
  \/ GetProduct("c1")
  \/ ListProducts("c1")

EnvSpec == EnvInit /\ [][EnvNext]_vars

\* A category is created under each name.
SlugInit ==
  /\ db = InitDb
  /\ \E n \in CategoryNames :
       cl = [c \in Clients |-> IF c = "c1" THEN [Idle EXCEPT !.name = n] ELSE Idle]

SlugNext == PostCategory("c1")

SlugSpec == SlugInit /\ [][SlugNext]_vars

\* Submissions that spell one email in two ways.
CaseNext == SubmitStep("c1", CaseBodies, MaxOrders)

CaseSpec == Init /\ [][CaseNext]_vars

\* Orders of a returning customer while the product's price is edited.
SnapshotNext ==
  \/ SubmitStep("c1", SnapshotBodies, MaxOrders)
  \/ PutProduct("c1", PriceBodies)

SnapshotSpec == Init /\ [][SnapshotNext]_vars

\* One order, and products deleted, archived and created.
DeleteNext ==
  \/ SubmitStep("c1", CatalogBodies, MaxAdminOrders)
  \/ CreateProduct("c1")
  \/ DeleteProduct("c1")
  \/ DeleteAct("c1")
  \/ SetArchived("c1")

DeleteSpec == Init /\ [][DeleteNext]_vars

\* One order moving between statuses while an admin edits the catalogue.
StockNext ==
  \/ SubmitStep("c1", CatalogBodies, MaxAdminOrders)
  \/ StatusStep("c1")
  \/ PatchNote("c1")
  \/ PutProduct("c1", StockBodies)
  \/ SetArchived("c1")
  \/ SetSortOrder("c1")
  \/ PatchVisibility("c1", PriceFlagBodies)

StockSpec == Init /\ [][StockNext]_vars

\* Product pages with FEATURE_PROMOTIONS=1, over any promotion rows of
\* product p1, while product prices are changed.
SaleInit ==
  /\ \E promos \in SeqsUpTo(Promotions, MaxPromos), price \in {ProductPrice["p1"], 40000} :
       db = [InitDb EXCEPT !.promosOn = TRUE, !.promos["p1"] = promos, !.pPrice["p1"] = price]
  /\ cl = [c \in Clients |-> Idle]

SaleNext ==
  \/ GetProduct("c1")
  \/ PutProduct("c1", PriceBodies)

SaleSpec == SaleInit /\ [][SaleNext]_vars


\* ------------------------------------------------------------------ claims
RECURSIVE ProductQty(_, _)
ProductQty(items, p) ==
  IF items = <<>> THEN 0
  ELSE (IF Head(items).productId = p THEN Head(items).quantity ELSE 0)
       + ProductQty(Tail(items), p)

RECURSIVE VariantQty(_, _)
VariantQty(items, v) ==
  IF items = <<>> THEN 0
  ELSE (IF Head(items).variantId = v THEN Head(items).quantity ELSE 0)
       + VariantQty(Tail(items), v)

RECURSIVE CompletedProductQty(_, _)
CompletedProductQty(orders, p) ==
  IF orders = <<>> THEN 0
  ELSE (IF Head(orders).status = "COMPLETED" THEN ProductQty(Head(orders).items, p) ELSE 0)
       + CompletedProductQty(Tail(orders), p)

RECURSIVE CompletedVariantQty(_, _)
CompletedVariantQty(orders, v) ==
  IF orders = <<>> THEN 0
  ELSE (IF Head(orders).status = "COMPLETED" THEN VariantQty(Head(orders).items, v) ELSE 0)
       + CompletedVariantQty(Tail(orders), v)

\* The status transaction of c commits in this step.
Commits(c) == cl[c].pc = "ss_update" /\ cl'[c].pc = "idle"

StockMovedBy(c, sign) ==
  LET its == db.orders[cl[c].id].items IN
  /\ \A p \in Products : db'.pStock[p] = db.pStock[p] + sign * ProductQty(its, p)
  /\ \A v \in Variants : db'.vStock[v] = db.vStock[v] + sign * VariantQty(its, v)

StockUnchanged == db'.pStock = db.pStock /\ db'.vStock = db.vStock

\* C1: with requests run one at a time, every product's stock is its initial
\* stock minus the quantities of its line items in the orders that are now
\* COMPLETED, and every variant's stock likewise over the items carrying it.
C1_StockLedger ==
  /\ \A p \in Products : db.pStock[p] = InitStock - CompletedProductQty(db.orders, p)
  /\ \A v \in Variants : db.vStock[v] = InitStock - CompletedVariantQty(db.orders, v)

C1_Witness ==
  /\ Len(db.orders) = 2
  /\ db.orders[1].status = "COMPLETED" /\ db.orders[2].status = "COMPLETED"
  /\ db.orders[1].items[1].productId = "p1" /\ db.orders[2].items[1].productId = "p1"
  /\ db.orders[1].items[1].variantId = "v1" /\ db.orders[2].items[1].variantId = Null
  /\ db.pStock["p1"] < db.vStock["v1"] /\ db.vStock["v1"] < InitStock
  /\ cl["c1"].resp.code = 200

\* C2: a transition into COMPLETED from any other status takes every item's
\* quantity off its product's stock and off its variant's stock, and a
\* following transition to RECEIVED, IN_PROGRESS, REFUSED or CANCELLED puts
\* exactly the same quantities back.
C2_RoundTrip ==
  [][\A c \in Clients :
       Commits(c) =>
         LET prev == db.orders[cl[c].id].status
             next == cl[c].next
         IN /\ (prev # "COMPLETED" /\ next = "COMPLETED") => StockMovedBy(c, 0 - 1)
            /\ (prev = "COMPLETED"
                /\ next \in {"RECEIVED", "IN_PROGRESS", "REFUSED", "CANCELLED"})
                 => StockMovedBy(c, 1)]_vars

C2_Witness ==
  /\ Len(db.orders) = 1
  /\ db.orders[1].status = "CANCELLED"
  /\ db.orders[1].items[1].variantId = "v1"
  /\ cl["c1"].resp.code = 200 /\ cl["c1"].resp.effect = "inc"
  /\ \A p \in Products : db.pStock[p] = InitStock
  /\ \A v \in Variants : db.vStock[v] = InitStock

\* C3: a status request that repeats the order's current status changes no
\* product stock and no variant stock.
C3_RepeatIsIdempotent ==
  [][\A c \in Clients :
       (Commits(c) /\ db.orders[cl[c].id].status = cl[c].next) => StockUnchanged]_vars

C3_Witness ==
  /\ Len(db.orders) = 1
  /\ db.orders[1].status = "COMPLETED"
  /\ cl["c1"].resp.code = 200 /\ cl["c1"].resp.effect = "none"
  /\ db.pStock[db.orders[1].items[1].productId] = InitStock - db.orders[1].items[1].quantity


\* C4: a transaction that read the order while it was not COMPLETED and commits
\* COMPLETED after another request has completed the same order still takes
\* the quantities off the stock: the decrement is applied a second time.
C4_DoubleApply ==
  [][\A c \in Clients :
       (Commits(c) /\ cl[c].prev # "COMPLETED" /\ cl[c].next = "COMPLETED"
        /\ db.orders[cl[c].id].status = "COMPLETED")
         => StockMovedBy(c, 0 - 1)]_vars

C4_Witness ==
  /\ Len(db.orders) = 1
  /\ db.orders[1].status = "COMPLETED"
  /\ db.pStock[db.orders[1].items[1].productId]
       = InitStock - 2 * db.orders[1].items[1].quantity
  /\ \A c \in Clients : cl[c].resp.code = 200 /\ cl[c].resp.effect = "dec"

\* C5: concurrent transitions on one order are serialized: each committing
\* transition leaves the status and the stock that it would leave when run
\* alone on the order as committed at that moment, so the final status and
\* stock are those of the requests run one after the other in commit order.
C5_Serialized ==
  [][\A c \in Clients :
       Commits(c) =>
         LET dir == StockEffect(db.orders[cl[c].id].status, cl[c].next)
         IN /\ db'.orders[cl[c].id].status = cl[c].next
            /\ dir = "dec" => StockMovedBy(c, 0 - 1)
            /\ dir = "inc" => StockMovedBy(c, 1)
            /\ dir = "none" => StockUnchanged]_vars

\* C6: when an UPDATE of applyStockDelta fails, the committed database is what
\* it was: the order keeps its status and no stock counter has moved, the
\* counters updated earlier in the loop included.
C6_FailedAdjustmentAborts ==
  [][\A c \in Clients :
       (cl[c].pc = "ss_stock" /\ cl'[c].pc = "idle")
         => /\ cl'[c].resp.error = "update_failed"
            /\ db' = db]_vars

C6_Witness ==
  /\ Len(db.orders) = 1
  /\ db.orders[1].status = "RECEIVED"
  /\ db.orders[1].items[1].variantId = "v1"
  /\ cl["c1"].resp.error = "update_failed" /\ cl["c1"].resp.step = 2
  /\ \A p \in Products : db.pStock[p] = InitStock
  /\ \A v \in Variants : db.vStock[v] = InitStock

NoPartialRows(d) ==
  /\ \A e \in Emails :
       d.customers[e] # NoRow => \E i \in 1..Len(d.orders) : d.orders[i].customerId = e
  /\ \A a \in 1..Len(d.addresses) : \E i \in 1..Len(d.orders) : d.orders[i].addressId = a
  /\ \A i \in 1..Len(d.orders) : Len(d.orders[i].items) >= 1

\* C8: an order submission whose transaction fails leaves the committed
\* database as it was (no customer created or updated, no address, no order,
\* no item), and no request ever sees only some rows of a submission.
C8_CreateAllOrNothing ==
  [][/\ \A c \in Clients :
          (cl[c].pc \in {"co_upsert", "co_address", "co_order"} /\ cl'[c].pc = "idle")
            => /\ cl'[c].resp.error = "invalid_variant"
               /\ db' = db
     /\ NoPartialRows(db')]_vars

C8_Witness ==
  /\ \E c \in Clients : cl[c].pc = "idle" /\ cl[c].resp.error = "invalid_variant"
  /\ Len(db.orders) = 1
  /\ Len(db.addresses) = 0
  /\ db.customers["jane@x.com"] = "Jane"

\* C9: once the transaction of an order submission has committed, the client
\* gets 201 with the created order, which is in the database, whatever the
\* outcome of the operator message and of the customer message.
C9_EmailNeverFailsOrder ==
  \A c \in Clients :
    (cl[c].pc = "co_mail")
      ~> (cl[c].pc = "idle" /\ cl[c].resp.code = 201 /\ OrderExists(db, cl[c].resp.orderId))

C9_Witness ==
  /\ cl["c1"].pc = "idle"
  /\ cl["c1"].resp.code = 201 /\ cl["c1"].resp.mail = "company_failed"
  /\ OrderExists(db, cl["c1"].resp.orderId)

\* The unit price the submission is to store for an item.
ExpectedUnitPrice(it) ==
  IF it.unitPrice # Undefined THEN it.unitPrice
  ELSE IF it.variantId # Null THEN VariantPrice[it.variantId]
  ELSE ProductPrice[it.productId]

\* C10: the stored unitPrice of every item is the submitted unitPrice when
\* there is one, else the variant's stored price when the item carries a
\* variantId, else the product's stored price.
C10_PriceHydration ==
  [][\A c \in Clients :
       (cl[c].pc = "co_order" /\ cl'[c].pc = "co_mail")
         => LET stored == db'.orders[Len(db'.orders)].items IN
            \A i \in 1..Len(stored) : stored[i].unitPrice = ExpectedUnitPrice(cl[c].body.items[i])]_vars

\* C11: an order submission with an item whose variantId resolves to no row is
\* answered "variant_not_found" without a transaction being started for it:
\* the database is as it was (no customer created or renamed, no address, no
\* order, no item).
C11_VariantNotFound ==
  [][\A c \in Clients :
       (cl[c].pc = "idle" /\ cl'[c] # cl[c])
         => /\ cl'[c].pc = "co_upsert"
                 => \A i \in 1..Len(cl'[c].body.items) : cl'[c].body.items[i].variantId # GhostVariant
            /\ cl'[c].resp.error = "variant_not_found" => db' = db]_vars

C11_Witness ==
  /\ cl["c2"].pc = "idle" /\ cl["c2"].resp.error = "variant_not_found"
  /\ cl["c1"].pc = "idle" /\ cl["c1"].resp.code = 201
  /\ Len(db.orders) = 1 /\ Len(db.addresses) = 0
  /\ db.customers["jane@x.com"] = "Janet"

RECURSIVE ItemsSum(_)
ItemsSum(items) ==
  IF items = <<>> THEN 0
  ELSE Head(items).quantity * Head(items).unitPrice + ItemsSum(Tail(items))

\* t is a whole number of hundredths and no other one is nearer to x.
IsRounded2(t, x) == t % 10 = 0 /\ 2 * (t - x) <= 10 /\ 2 * (x - t) <= 10

\* C12: in every state every order's subtotal equals its total and both are
\* the sum over its stored items of quantity * unitPrice rounded to two
\* decimals; no step (status, note or product price change among them)
\* alters the subtotal or the total of an order.
C12_Totals ==
  /\ [](\A i \in 1..Len(db.orders) :
          /\ db.orders[i].subtotal = db.orders[i].total
          /\ IsRounded2(db.orders[i].total, ItemsSum(db.orders[i].items)))
  /\ [][\A i \in 1..Len(db.orders) :
          /\ db'.orders[i].subtotal = db.orders[i].subtotal
          /\ db'.orders[i].total = db.orders[i].total]_vars

\* An idle client's request in this step is answered by a route behind
\* requireAdmin (and not by POST /orders, which is public).
AdminRequest(c) ==
  /\ cl[c].pc = "idle" /\ cl'[c] # cl[c]
  /\ cl'[c].token = NoToken
  /\ cl'[c].pc # "co_upsert"
  /\ cl'[c].resp.error \notin {"invalid_body", "variant_not_found"}

Rejected(c) == cl'[c].pc = "idle" /\ cl'[c].resp.code \in {401, 403} /\ db' = db

\* C13: a request to an admin route whose token names a user whose stored
\* role is not ADMIN (or who has no row any more) is rejected, although the
\* token is validly signed, unexpired and carries role ADMIN.
C13_RoleRechecked ==
  [][\A c \in Clients :
       (AdminRequest(c) /\ cl[c].token.sub \in Users /\ db.users[cl[c].token.sub] # "ADMIN")
         => Rejected(c)]_vars

\* C14: a request to an admin route without a token, with one that is no JWT,
\* is wrongly signed or is expired is answered 401, one with a valid token
\* whose role is not ADMIN is answered 403, and in both cases the handler
\* does not run: the database is as it was.
C14_RejectedBeforeHandler ==
  [][\A c \in Clients :
       AdminRequest(c) =>
         LET t == cl[c].token
             valid == t.form = "jwt" /\ t.sig = "server" /\ ~t.expired
         IN /\ ~valid => (Rejected(c) /\ cl'[c].resp.code = 401)
            /\ (valid /\ t.role # "ADMIN") => (Rejected(c) /\ cl'[c].resp.code = 403)]_vars

C14_Witness ==
  /\ cl["c1"].pc = "idle" /\ cl["c1"].resp.code = 403
  /\ db.users["u1"] = "USER"
  /\ Len(db.orders) = 1 /\ db.orders[1].note = "call first"
  /\ db.pPrice["p1"] = NewPrice

\* The product response of this step, and the flags of the product it shows.
Served(c) == cl[c].pc = "idle" /\ cl'[c] # cl[c] /\ cl'[c].resp.product # <<>>

FlagOf(id, field) ==
  CASE field = "price" -> db.pVisible[id].price
    [] field = "description" -> db.pVisible[id].description
    [] field = "images" -> db.pVisible[id].images
    [] field = "packageSize" -> db.pVisible[id].packageSize
    [] field = "pdfUrl" -> db.pVisible[id].pdf

\* C15: a product serialized for a non-admin has no key for any of price,
\* description, images, packageSize and pdfUrl whose visible flag is false,
\* and no visibility object; serialized for an admin it has all five keys
\* whatever the flags, and a visibility object with the stored flags.
C15_Redaction ==
  [][\A c \in Clients :
       Served(c) =>
         LET out == cl'[c].resp.product[1] IN
         IF cl'[c].resp.effect = "admin_view"
         THEN /\ {"price", "description", "images", "packageSize", "pdfUrl"} \subseteq DOMAIN out
              /\ "visibility" \in DOMAIN out
              /\ out.visibility = db.pVisible[out.id]
         ELSE /\ \A f \in {"price", "description", "images", "packageSize", "pdfUrl"} :
                   ~FlagOf(out.id, f) => f \notin DOMAIN out
              /\ "visibility" \notin DOMAIN out]_vars

\* A promotion that computeSale is to consider.
Qualifies(pr) ==
  /\ pr.active
  /\ pr.window[1] <= Now /\ Now <= pr.window[2]
  /\ pr.percentOff # 0 \/ pr.priceOff # 0

\* The price a promotion gives on a base price: the lower of the percentage
\* price and the price with the amount taken off, not below 0, in whole
\* hundredths.  price100 is that price times 100.
EffectivePrice(pr, base) ==
  LET pct == IF pr.percentOff # 0 THEN base * (100 - pr.percentOff) ELSE base * 100
      off == IF pr.priceOff # 0 THEN (base - pr.priceOff) * 100 ELSE base * 100
      price100 == IF off < pct THEN off ELSE pct
  IN IF price100 <= 0 THEN 0
     ELSE CHOOSE t \in {10 * (price100 \div 1000), 10 * (price100 \div 1000) + 10} :
            2 * (100 * t - price100) <= 1000 /\ 2 * (price100 - 100 * t) < 1000

\* C16: the sale of a product response is the promotion with the lowest
\* effective price among the promotions that are active, inside their window
\* and have percentOff or priceOff; its salePrice is >= 0 and strictly below
\* the base price; there is no sale when no promotion qualifies, and a
\* promotion that is inactive or outside its window is never the sale.
C16_PromotionSelection ==
  [][\A c \in Clients :
       Served(c) =>
         LET out  == cl'[c].resp.product[1]
             base == db.pPrice[out.id]
             qual == {n \in 1..Len(db.promos[out.id]) : Qualifies(db.promos[out.id][n])}
             eff(n) == EffectivePrice(db.promos[out.id][n], base)
         IN IF "sale" \in DOMAIN out
            THEN /\ \E n \in qual :
                      /\ db.promos[out.id][n].percentOff = out.sale.percentOff
                      /\ db.promos[out.id][n].priceOff = out.sale.priceOff
                      /\ db.promos[out.id][n].window = out.sale.window
                      /\ eff(n) = out.sale.salePrice
                 /\ \A n \in qual : out.sale.salePrice <= eff(n)
                 /\ 0 <= out.sale.salePrice /\ out.sale.salePrice < base
            ELSE \A n \in qual : eff(n) >= base]_vars

C16_Witness ==
  /\ cl["c1"].resp.product # <<>>
  /\ "sale" \in DOMAIN cl["c1"].resp.product[1]
  /\ cl["c1"].resp.product[1].sale.salePrice = 35000
  /\ cl["c1"].resp.product[1].sale.priceOff = 5000
  /\ db.pPrice["p1"] = 40000
  /\ Len(db.promos["p1"]) = 2
  /\ db.promos["p1"][1].percentOff = 10 /\ db.promos["p1"][1].priceOff = 0 /\ Qualifies(db.promos["p1"][1])
  /\ db.promos["p1"][2].priceOff = 5000 /\ db.promos["p1"][2].percentOff = 0

\* C17: DELETE /products/:id of a product that an order item references
\* leaves the product row, its images, category links and variants in place
\* and sets active to false; of a product no order item references it
\* removes the product with its images and category links.
C17_ArchiveNotDelete ==
  [][\A c \in Clients :
       (cl[c].pc = "pd_act" /\ cl[c].next = "soft" /\ cl'[c].pc = "idle" /\ cl[c].pid \in ProductRows)
         => IF Referenced(db, cl[c].pid)
            THEN db' = [db EXCEPT !.pRow[cl[c].pid] = "archived"]
            ELSE /\ db'.pRow[cl[c].pid] = "gone"
                 /\ ~db'.pLinks[cl[c].pid]]_vars

C17_Witness ==
  /\ cl["c1"].pc = "idle" /\ cl["c1"].resp.effect = "archived"
  /\ db.pRow["p1"] = "archived" /\ db.pLinks["p1"] /\ "v1" \in db.variants
  /\ Len(db.orders) = 1 /\ db.orders[1].items[1].productId = "p1"

\* C18: in every reachable state the stock of every product and of every
\* variant is at least 0, also after an order is completed whose quantity
\* exceeds the stock.
C18_StockNeverNegative ==
  /\ \A p \in ProductRows : db.pStock[p] >= 0
  /\ \A v \in db.variants : db.vStock[v] >= 0

\* C19: the stock of an existing product or variant changes only in a
\* status change into or out of COMPLETED; product update, archive and
\* unarchive, sort-order, visibility and note changes leave it unchanged.
C19_StockOnlyByCompletion ==
  [][(\/ \E p \in ProductRows : db'.pRow[p] # "gone" /\ db'.pStock[p] # db.pStock[p]
      \/ \E v \in db.variants : v \in db'.variants /\ db'.vStock[v] # db.vStock[v])
       => \E c \in Clients : Commits(c) /\ StockEffect(cl[c].prev, cl[c].next) # "none"]_vars

\* C20: every created order starts in status RECEIVED; a status request for
\* an existing order is carried on whatever the pair of stored and requested
\* status is, RECEIVED to COMPLETED and COMPLETED to RECEIVED included; its
\* stock updates can go through; and when it commits the stored status is
\* the requested one and the answer is 200.
C20_AnyTransition ==
  /\ [][Len(db'.orders) > Len(db.orders)
          => db'.orders[Len(db'.orders)].status = "RECEIVED"]_vars
  /\ [][\A c \in Clients :
          (cl[c].pc = "ss_read" /\ cl'[c] # cl[c] /\ OrderExists(db, cl[c].id))
            => /\ cl'[c].pc \in {"ss_stock", "ss_update"}
               /\ cl'[c].prev = db.orders[cl[c].id].status
               /\ cl'[c].next = cl[c].next]_vars
  /\ [](\A c \in Clients :
          cl[c].pc = "ss_stock" => ENABLED (ApplyStockDeltaStep(c) /\ cl'[c].pc # "idle"))
  /\ [][\A c \in Clients :
          Commits(c) => /\ db'.orders[cl[c].id].status = cl[c].next
                        /\ cl'[c].resp.code = 200]_vars

C20_Witness ==
  /\ cl["c1"].pc = "idle" /\ cl["c1"].resp.code = 200 /\ cl["c1"].resp.effect = "inc"
  /\ Len(db.orders) >= 1 /\ db.orders[1].status = "RECEIVED"
  /\ db.pStock = InitDb.pStock /\ db.vStock = InitDb.vStock

\* String.prototype.toLowerCase on the emails above.
LowerCased(e) == IF e \in MixedCaseEmails THEN "jane@x.com" ELSE e

\* C21: after any sequence of order submissions there is at most one
\* Customer row per lower-cased email: a submission whose email differs from
\* a stored customer's only in letter case updates that customer.
C21_OneCustomerPerEmail ==
  \A e1, e2 \in DOMAIN db.customers :
    (db.customers[e1] # NoRow /\ db.customers[e2] # NoRow /\ LowerCased(e1) = LowerCased(e2))
      => e1 = e2

C23_VariantOfItsProduct ==
  \A i \in 1..Len(db.orders) : \A j \in 1..Len(db.orders[i].items) :
    LET it == db.orders[i].items[j] IN
    it.variantId \in Variants => VariantProduct[it.variantId] = it.productId

\* The products a response carries.
Returned(r) == {r.product[i] : i \in 1..Len(r.product)} \cup {r.list[i] : i \in 1..Len(r.list)}

\* A Bearer token signed by the server, not expired, with role ADMIN.
AdminToken(t) == t.form = "jwt" /\ t.sig = "server" /\ ~t.expired /\ t.sub # Null /\ t.role = "ADMIN"

\* A product read is answered.
ProductRead(c) ==
  /\ cl[c].pc = "idle" /\ cl'[c] # cl[c] /\ cl'[c].token = NoToken
  /\ cl'[c].resp.effect \in {"admin_view", "public_view", "admin_list", "public_list"}

\* C24: GET /products and GET /products/:idOrSlug return a product with
\* active=false only to a request with all=1 and a validly signed token
\* with role ADMIN; a request with all=1 but no such token, and a request
\* with such a token but without all=1, get the public view: active
\* products only, a hidden price redacted and no visibility object.
C24_InactiveAdminOnly ==
  [][\A c \in Clients :
       ProductRead(c)
         => IF cl'[c].resp.all /\ AdminToken(cl[c].token)
            THEN \A out \in Returned(cl'[c].resp) : "visibility" \in DOMAIN out
            ELSE \A out \in Returned(cl'[c].resp) :
                   /\ db.pRow[out.id] = "active"
                   /\ "visibility" \notin DOMAIN out
                   /\ ~db.pVisible[out.id].price => "price" \notin DOMAIN out]_vars

C24_Witness ==
  /\ db.pRow["p1"] = "archived"
  /\ cl["c1"].resp.all /\ cl["c1"].resp.effect = "admin_list"
  /\ Len(cl["c1"].resp.list) = 2
  /\ \E i \in 1..2 : cl["c1"].resp.list[i].id = "p1"

\* C25: for every name, slugify(slugify(name)) = slugify(name), and
\* slugify(name) is lower-case, has only characters of [a-z0-9-], no two
\* hyphens in a row and no hyphen at its start or end.
C25_SlugDeterminism ==
  \A c \in Clients :
    cl[c].resp.category # <<>> =>
      LET name == cl[c].resp.category[1].name
          slug == cl[c].resp.category[1].slug
      IN /\ slug = slugify(name)
         /\ slugify(slug) = slug
         /\ \A i \in 1..Len(slug) : slug[i] \in {"a", "b", "7", "-"}
         /\ \A i \in 1..Len(slug) - 1 : ~(slug[i] = "-" /\ slug[i + 1] = "-")
         /\ slug # <<>> => slug[1] # "-" /\ slug[Len(slug)] # "-"

C25_Witness ==
  /\ cl["c1"].resp.category # <<>>
  /\ cl["c1"].resp.category[1].name = <<"-", "B", " ", "7">>
  /\ cl["c1"].resp.category[1].slug = <<"b", "-", "7">>

\* The quantity the COMPLETED orders hold of a product or variant row.
RECURSIVE Taken(_, _, _)
Taken(orders, table, row) ==
  IF orders = <<>> THEN 0
  ELSE LET it == Head(orders).items[1]
           q  == IF Head(orders).status = "COMPLETED"
                    /\ (IF table = "product" THEN it.productId ELSE it.variantId) = row
                 THEN it.quantity ELSE 0
       IN q + Taken(Tail(orders), table, row)

\* C26: when two different orders that contain the same product change
\* status concurrently, both deltas are applied in every interleaving:
\* the stock of the product and of the variant is the initial stock less
\* the quantities of the orders that are COMPLETED (S - Q1 - Q2 when both
\* are); no decrement overwrites the other.
C26_AtomicCounters ==
  /\ db.pStock["p1"] = InitStock - Taken(db.orders, "product", "p1")
  /\ db.vStock["v1"] = InitStock - Taken(db.orders, "variant", "v1")

C26_Witness ==
  /\ db.orders[1].status = "COMPLETED" /\ db.orders[2].status = "COMPLETED"
  /\ db.orders[1].items[1].quantity = 1 /\ db.orders[2].items[1].quantity = 2
  /\ db.pStock["p1"] = InitStock - 3
  /\ \A c \in Clients : cl[c].pc = "idle" /\ cl[c].resp.code = 200 /\ cl[c].resp.effect = "dec"

\* C27: in every state reachable by interleaving DELETE /products/:id (the
\* count and the delete being separate steps) with POST /orders for the
\* same product, the productId of every stored order item refers to a
\* product row that exists; a delete that counted 0 but meets a committed
\* order for the product does not remove the product.
C27_ItemsKeepTheirProduct ==
  /\ [](\A i \in 1..Len(db.orders) : \A j \in 1..Len(db.orders[i].items) :
          db.orders[i].items[j].productId \in ProductRows)
  /\ [][\A c \in Clients :
          (cl[c].pc = "pd_act" /\ cl'[c].pc = "idle" /\ cl[c].k = 0 /\ Referenced(db, cl[c].pid))
            => db' = db]_vars

C27_Witness ==
  \E c \in Clients :
    /\ cl[c].pc = "idle" /\ cl[c].resp.code = 500 /\ cl[c].resp.error = "delete_failed"
    /\ db.pRow["p1"] = "active"
    /\ Len(db.orders) = 1 /\ db.orders[1].items[1].productId = "p1"

\* The database that differs in the price of the products whose price is
\* hidden, and in nothing else.
OtherPrice(d) ==
  [d EXCEPT !.pPrice = [p \in Products |->
                          IF d.pVisible[p].price THEN @[p]
                          ELSE IF @[p] = 40000 THEN ProductPrice["p1"] ELSE 40000]]

\* C28: every response a non-admin can get (GET /products,
\* GET /products/:idOrSlug with its sale object and variants, and
\* GET /promotions) is the same for two products that differ only in a
\* price that is hidden.
C28_HiddenPriceNonInterference ==
  [][\A c \in Clients :
       (cl[c].pc = "idle" /\ cl'[c] # cl[c])
         => LET r == cl'[c].resp
                o == OtherPrice(db)
            IN /\ r.effect = "public_view"
                    => r.product = <<serializeProduct(LoadProduct(o, r.product[1].id), FALSE)>>
               /\ r.effect = "public_list"
                    => r.list = [i \in 1..Len(r.list) |->
                                   serializeProduct(LoadProduct(o, r.list[i].id), FALSE)]
               /\ r.effect = "promotions"
                    => r.list = PromotionRows(o, <<"p1", "p2">>)]_vars

\* C29: in every environment in which POST /auth/login returns a token,
\* that token, unexpired, authenticates the next request as the same user
\* id and role: a route behind requireAuth or requireAdmin does not answer
\* 401 or 500 for it (nor 403 to an ADMIN), GET /auth/me returns the user, and a product
\* read with all=1 by an ADMIN gets the admin view; also when JWT_SECRET is
\* unset or has surrounding whitespace.
C29_LoginVerifyRoundTrip ==
  [][\A c \in Clients :
       LET t == cl[c].token
           r == cl'[c].resp
       IN (/\ cl[c].pc = "idle" /\ cl'[c] # cl[c] /\ cl'[c].token = NoToken
           /\ t.form = "jwt" /\ ~t.expired /\ t.sig = resolveJwtSecret(db.env))
            => /\ r.error \notin {"unauthorized", "jwt_secret_not_set"}
               /\ t.role = "ADMIN" => r.error # "forbidden"
               /\ r.effect = "me" => r.user = <<[id |-> t.sub, role |-> t.role]>>
               /\ (r.all /\ r.effect \in {"admin_view", "public_view", "admin_list", "public_list"})
                    => r.effect \in {"admin_view", "admin_list"}]_vars

\* C30: a PATCH /orders/:id/note that succeeds writes both text fields
\* of the order from the body, null for a field the body omits or sends as
\* null, and changes nothing else: every other field of the order (status,
\* totals, items, customer snapshot), every other order and every product
\* and variant stock counter are as before.
C30_NoteWritesBoth ==
  [][\A c \in Clients :
       (cl[c].pc = "idle" /\ cl'[c].pc = "idle" /\ cl'[c].resp.effect = "noted")
         => /\ cl'[c].noteBody # <<>>
            /\ \E id \in 1..Len(db.orders) :
                 /\ db'.orders[id].note = cl'[c].noteBody[1].note
                 /\ db'.orders[id].adminNote = cl'[c].noteBody[1].adminNote
                 /\ db' = [db EXCEPT !.orders[id] =
                             [@ EXCEPT !.note = db'.orders[id].note,
                                       !.adminNote = db'.orders[id].adminNote]]]_vars

\* A request carrying only adminNote has been served and the note the
\* customer left at submission is gone.
C30_Witness ==
  /\ cl["c1"].resp.effect = "noted"
  /\ cl["c1"].noteBody = <<[note |-> Null, adminNote |-> "vip"]>>
  /\ Len(db.orders) = 1
  /\ db.orders[1].note = Null /\ db.orders[1].adminNote = "vip"
  /\ db.orders[1].status # "RECEIVED"

====
